---- MODULE Spec2Model ----
(***************************************************************************)
(* Model of the parsec front end (src/front/front_end.rs):                 *)
(*   - FrontEndHandlerBuilder: new, with_dispatcher, with_authenticator,   *)
(*     with_body_len_limit, build;                                         *)
(*   - FrontEndHandler::handle_request, run by the worker threads that     *)
(*     share one built handler;                                            *)
(* and of the key identity mapping (src/key_id_managers/mod.rs):           *)
(*   - KeyTriple and the ManageKeyIDs operations get, get_all, insert,     *)
(*     remove, exists over a persistent store.                             *)
(* Spec runs the front end, KeySpec one caller of the key mapping with     *)
(* restarts, KeyConcSpec concurrent callers of insert and remove.          *)
(* Option<T> is a set with at most one element, HashMap<K, V> a function   *)
(* whose domain is the set of present keys, Result<T, E> a record with an  *)
(* ok flag.                                                                *)
(***************************************************************************)
EXTENDS Integers, Sequences, FiniteSets, TLC

\* ------------------------------------------------------------------ bounds
\* Largest body_len_limit handed to with_body_len_limit.
MaxLimit == 1
\* Largest body length announced by a request header on the wire.
MaxBodyLen == 1
\* Largest number of keys the mapping is filled with.
MaxKeys == 2

\* ------------------------------------------------------- values and inputs
\* Threads that call handle_request on the shared handler.
Workers == {"w1", "w2"}
\* AuthType values of the wire protocol.
AuthTypes == {"NoAuth", "Direct", "UnixPeerCredentials"}
\* Authenticator objects that can be boxed and registered.
Authenticators == {"by_name", "by_token"}
\* Dispatcher objects that can be handed to the builder.
Dispatchers == {"d1", "d2"}
\* Authentication payloads (request.auth) a client may send.
AuthPayloads == {"", "app1"}
Limits == 0..MaxLimit
BodyLens == 0..MaxBodyLen

\* Option<T>
None == {}
Some(x) == {x}
unwrap(o) == CHOOSE x \in o : TRUE

\* Result<T, E>
Ok(v) == [ok |-> TRUE, val |-> v]
Err(e) == [ok |-> FALSE, err |-> e]

RequestHeaders == [auth_type : AuthTypes, body_len : BodyLens]
Requests == [header : RequestHeaders, auth : AuthPayloads]

\* What the client put on the stream: a well-formed encoding of a request,
\* or bytes that do not parse as a request header.
GarbageWire ==
    [wellformed |-> FALSE,
     request |-> [header |-> [auth_type |-> "NoAuth", body_len |-> 0], auth |-> ""]]
Wires == {[wellformed |-> TRUE, request |-> r] : r \in Requests} \cup {GarbageWire}

\* --------------------------------------------------------------- responses
\* Response::from_status: a response with a default header (no request
\* header is echoed) that carries the status.
from_status(status) ==
    [header |-> None, status |-> status, body |-> None]

\* Response::from_request_header: a response that echoes the request header
\* and carries the status.
from_request_header(header, status) ==
    [header |-> Some(header), status |-> status, body |-> None]

\* ----------------------------------------------------------- collaborators
\* Request::read_from_stream(stream, body_len_limit): the header is parsed,
\* a body longer than the limit is refused, otherwise the request is read.
read_from_stream(wire, body_len_limit) ==
    IF ~wire.wellformed THEN Err("InvalidHeader")
    ELSE IF wire.request.header.body_len > body_len_limit
         THEN Err("BodySizeExceedsLimit")
         ELSE Ok(wire.request)

\* Authenticate::authenticate(auth) of the two authenticator objects:
\* by_name takes the payload as the application name and refuses an empty
\* one; by_token accepts the empty payload only.
authenticate(authenticator, auth) ==
    IF authenticator = "by_name"
    THEN IF auth = "" THEN Err("AuthenticationError") ELSE Ok(auth)
    ELSE IF auth = "" THEN Ok("anonymous") ELSE Err("WrongAuthToken")

\* Dispatcher::dispatch_request(request, app_name): infallible; the response
\* is an uninterpreted term over the dispatcher and its arguments.
dispatch_request(dispatcher, request, app_name) ==
    [header |-> Some(request.header), status |-> "Success",
     body |-> Some([dispatcher |-> dispatcher, auth |-> request.auth,
                    app_name |-> app_name])]

\* ------------------------------------------------------------------- state
VARIABLES
    builder,       \* the FrontEndHandlerBuilder being filled
    supplied,      \* history: the last argument given to each setter
    build_result,  \* None until build is called, then Some(Result<FrontEndHandler>)
    pc,            \* per worker: position inside handle_request
    input,         \* per worker: Option of what the stream holds to read
    output,        \* per worker: responses that reached the stream
    request,       \* per worker: Option<Request>, the local `request`
    response,      \* per worker: Option<Response>, the local `response`
    app_name,      \* per worker: Option<ApplicationName> from authenticate
    events,        \* per worker: calls made to the collaborators, in order
    key_store,     \* key mapping in memory: a set of [triple, info] entries
    disk,          \* key mapping in persistent storage
    klast,         \* the last completed call on the key mapping, with its result
    lock,          \* Option of the caller that holds the mapping exclusively
    kpc,           \* per caller: position inside its insert or remove call
    kcall,         \* per caller: the call it is making
    kold,          \* per caller: the entry it found for its triple
    kret,          \* per caller: the result its call returned
    kbefore,       \* per caller: the callers whose calls had returned when it called
    snapshot       \* key mapping when no call was in progress for the last time

frontVars == <<builder, supplied, build_result, pc, input, output, request,
               response, app_name, events>>
storeVars == <<key_store, disk>>
callerVars == <<lock, kpc, kcall, kold, kret, kbefore, snapshot>>
keyVars == <<key_store, disk, klast, lock, kpc, kcall, kold, kret, kbefore, snapshot>>
vars == <<frontVars, keyVars>>
builderVars == <<builder, supplied, build_result>>
workerVars == <<pc, input, output, request, response, app_name, events>>

\* ----------------------------------------------------------------- builder
\* FrontEndHandlerBuilder::new
new ==
    [dispatcher |-> None, authenticators |-> None, body_len_limit |-> None]

\* Nothing was handed to the builder yet; `replaced` tells that some setter
\* call came after an earlier call for the same field (or auth type).
NothingSupplied ==
    [dispatcher |-> None,
     authenticators |-> [t \in AuthTypes |-> None],
     body_len_limit |-> None,
     replaced |-> FALSE]

\* HashMap::insert
insert(map, key, value) ==
    [k \in (DOMAIN map) \cup {key} |-> IF k = key THEN value ELSE map[k]]

\* HashMap::new followed by one insert
singleton(key, value) == [k \in {key} |-> value]

\* ------------------------------------------------------------- key mapping
\* ApplicationName, ProviderID and key name values, and the KeyInfo records
\* (id, attributes) that providers store.
Apps == {"app1", "app2"}
Providers == {"MbedCrypto", "Pkcs11"}
KeyNames == {"k1", "k2"}
KeyInfos == [id : {"h1", "h2"}, attributes : {"rsa"}]
\* Threads of the providers that call insert and remove.
Callers == {"c1", "c2"}

\* KeyTriple::new
KeyTriple_new(app, provider_id, key_name) ==
    [app_name |-> app, provider_id |-> provider_id, key_name |-> key_name]

KeyTriples ==
    {KeyTriple_new(a, p, k) : a \in Apps, p \in Providers, k \in KeyNames}

\* Variant: the application name takes no part in the comparison.
KeyTriple_eq_no_app(a, b) ==
    /\ a.provider_id = b.provider_id
    /\ a.key_name = b.key_name

\* derive(PartialEq, Eq, Hash) on KeyTriple: field by field.
KeyTriple_eq(a, b) ==
    /\ a.app_name = b.app_name
    /\ a.provider_id = b.provider_id
    /\ a.key_name = b.key_name

\* Variant: the provider is not compared.
belongs_to_provider_any(triple, provider_id) == triple.provider_id \in Providers

\* KeyTriple::belongs_to_provider
belongs_to_provider(triple, provider_id) == triple.provider_id = provider_id

\* A completed call on the key mapping: what was asked and what came back.
\* ok is FALSE for Err(String); ret_info is the Option<KeyInfo> of get,
\* insert and remove, ret_triples the Vec<&KeyTriple> of get_all, ret_flag
\* the bool of exists.
KeyCall(op, triple, provider, info) ==
    [op |-> op, triple |-> triple, provider |-> provider, info |-> info]
KeyReturn(call, ok, ret_info, ret_triples, ret_flag) ==
    [op |-> call.op, triple |-> call.triple, provider |-> call.provider,
     info |-> call.info, ok |-> ok, ret_info |-> ret_info,
     ret_triples |-> ret_triples, ret_flag |-> ret_flag]
NoKeyCall == KeyCall("none", None, None, None)
NoKeyReturn == KeyReturn(NoKeyCall, TRUE, None, {}, FALSE)

KeyInit ==
    /\ key_store = {}
    /\ disk = {}
    /\ klast = NoKeyReturn
    /\ lock = None
    /\ kpc = [c \in Callers |-> "idle"]
    /\ kcall = [c \in Callers |-> NoKeyCall]
    /\ kold = [c \in Callers |-> None]
    /\ kret = [c \in Callers |-> None]
    /\ kbefore = [c \in Callers |-> {}]
    /\ snapshot = {}

\* The builder can still be used: build has not consumed it.
Building == build_result = None

WorkersIdle ==
    /\ pc = [w \in Workers |-> "idle"]
    /\ input = [w \in Workers |-> None]
    /\ output = [w \in Workers |-> <<>>]
    /\ request = [w \in Workers |-> None]
    /\ response = [w \in Workers |-> None]
    /\ app_name = [w \in Workers |-> None]
    /\ events = [w \in Workers |-> <<>>]

Init ==
    /\ builder = new
    /\ supplied = NothingSupplied
    /\ build_result = None
    /\ WorkersIdle
    /\ KeyInit

\* FrontEndHandlerBuilder::with_dispatcher
with_dispatcher(b, dispatcher) ==
    [b EXCEPT !.dispatcher = Some(dispatcher)]

\* Variant: every call starts a new registry that holds its entry alone.
with_authenticator_fresh_map(b, auth_type, authenticator) ==
    [b EXCEPT !.authenticators = Some(singleton(auth_type, authenticator))]

\* FrontEndHandlerBuilder::with_authenticator: upsert into the registry,
\* which is created by the first call.
with_authenticator(b, auth_type, authenticator) ==
    IF b.authenticators # None
    THEN [b EXCEPT !.authenticators =
              Some(insert(unwrap(b.authenticators), auth_type, authenticator))]
    ELSE [b EXCEPT !.authenticators = Some(singleton(auth_type, authenticator))]

\* FrontEndHandlerBuilder::with_body_len_limit
with_body_len_limit(b, body_len_limit) ==
    [b EXCEPT !.body_len_limit = Some(body_len_limit)]

\* Variant: the body length limit is checked first.
build_limit_first(b) ==
    IF b.body_len_limit = None THEN Err("body_len_limit is missing")
    ELSE IF b.dispatcher = None THEN Err("dispatcher is missing")
    ELSE IF b.authenticators = None THEN Err("authenticators is missing")
    ELSE Ok([dispatcher |-> unwrap(b.dispatcher),
             authenticators |-> unwrap(b.authenticators),
             body_len_limit |-> unwrap(b.body_len_limit)])

\* Variant: a missing registry defaults to an empty one.
build_default_registry(b) ==
    IF b.dispatcher = None THEN Err("dispatcher is missing")
    ELSE IF b.body_len_limit = None THEN Err("body_len_limit is missing")
    ELSE Ok([dispatcher |-> unwrap(b.dispatcher),
             authenticators |-> IF b.authenticators = None
                                THEN [t \in {} |-> "by_name"]
                                ELSE unwrap(b.authenticators),
             body_len_limit |-> unwrap(b.body_len_limit)])

\* Variant: a missing body length limit defaults to 0.
build_default_limit(b) ==
    IF b.dispatcher = None THEN Err("dispatcher is missing")
    ELSE IF b.authenticators = None THEN Err("authenticators is missing")
    ELSE Ok([dispatcher |-> unwrap(b.dispatcher),
             authenticators |-> unwrap(b.authenticators),
             body_len_limit |-> IF b.body_len_limit = None THEN 0
                                ELSE unwrap(b.body_len_limit)])

\* FrontEndHandlerBuilder::build: the three `?` are evaluated in field
\* order, the first missing field ends the call with its error.
build(b) ==
    IF b.dispatcher = None THEN Err("dispatcher is missing")
    ELSE IF b.authenticators = None THEN Err("authenticators is missing")
    ELSE IF b.body_len_limit = None THEN Err("body_len_limit is missing")
    ELSE Ok([dispatcher |-> unwrap(b.dispatcher),
             authenticators |-> unwrap(b.authenticators),
             body_len_limit |-> unwrap(b.body_len_limit)])

\* build returned an error and no handler.
BuildFailed == build_result # None /\ ~unwrap(build_result).ok

\* A fresh builder replaces one that is still being filled or whose build
\* failed.
NewBuilder ==
    /\ Building \/ BuildFailed
    /\ builder' = new
    /\ supplied' = NothingSupplied
    /\ build_result' = None
    /\ UNCHANGED <<workerVars, keyVars>>

WithDispatcher(dispatcher) ==
    /\ Building
    /\ builder' = with_dispatcher(builder, dispatcher)
    /\ supplied' = [supplied EXCEPT !.dispatcher = Some(dispatcher),
                                    !.replaced = @ \/ supplied.dispatcher # None]
    /\ UNCHANGED <<build_result, workerVars, keyVars>>

WithAuthenticator(auth_type, authenticator) ==
    /\ Building
    /\ builder' = with_authenticator(builder, auth_type, authenticator)
    /\ supplied' = [supplied EXCEPT !.authenticators[auth_type] = Some(authenticator),
                                    !.replaced = @ \/ supplied.authenticators[auth_type] # None]
    /\ UNCHANGED <<build_result, workerVars, keyVars>>

WithBodyLenLimit(body_len_limit) ==
    /\ Building
    /\ builder' = with_body_len_limit(builder, body_len_limit)
    /\ supplied' = [supplied EXCEPT !.body_len_limit = Some(body_len_limit),
                                    !.replaced = @ \/ supplied.body_len_limit # None]
    /\ UNCHANGED <<build_result, workerVars, keyVars>>

Build ==
    /\ Building
    /\ build_result' = Some(build(builder))
    /\ UNCHANGED <<builder, supplied, workerVars, keyVars>>

\* ----------------------------------------------------------------- handler
\* A handler exists and is shared by the workers.
Serving == build_result # None /\ unwrap(build_result).ok
handler == unwrap(build_result).val

ReadEvent(limit) == [op |-> "read_from_stream", limit |-> limit]
AuthenticateEvent(authenticator, auth) ==
    [op |-> "authenticate", authenticator |-> authenticator, auth |-> auth]
DispatchEvent(dispatcher, req, app) ==
    [op |-> "dispatch_request", dispatcher |-> dispatcher, request |-> req,
     app_name |-> app]
WriteEvent(resp, ok) == [op |-> "write_to_stream", response |-> resp, ok |-> ok]

\* Variant: the failure response echoes the header found on the wire.
read_failure_response_echo(wire, status) ==
    from_request_header(wire.request.header, status)

\* The response composed when read_from_stream fails with `status`; nothing
\* of the stream's content takes part in it.
read_failure_response(wire, status) == from_status(status)

\* Variant: the registry is consulted before the NoAuth test.
route_registry_first(h, req) ==
    IF req.header.auth_type \in DOMAIN h.authenticators THEN "authenticate"
    ELSE IF req.header.auth_type = "NoAuth" THEN "dispatch"
    ELSE "not_registered"

\* Which arm of the if / else if / else on the request's auth type is taken.
route(h, req) ==
    IF req.header.auth_type = "NoAuth" THEN "dispatch"
    ELSE IF req.header.auth_type \in DOMAIN h.authenticators THEN "authenticate"
    ELSE "not_registered"

\* Variant: the lookup hands back the first registered authenticator,
\* whatever its key.
lookup_first(h, req) ==
    h.authenticators[CHOOSE t \in DOMAIN h.authenticators : TRUE]

\* The authenticator the registry lookup hands back for the request.
lookup(h, req) == h.authenticators[req.header.auth_type]

\* Variant: the verified identity is not passed on.
authenticated_identity_dropped(name) == None

\* The identity handed to the dispatcher after a successful authenticate.
authenticated_identity(name) == Some(name)

\* Variant: every authentication failure is reported with one generic status.
auth_failure_response_generic(req, status) ==
    from_request_header(req.header, "AuthenticationError")

\* The response composed when the authenticator fails with `status`.
auth_failure_response(req, status) == from_request_header(req.header, status)

\* Variant: the not-registered response is built from the status alone.
not_registered_response_bare(req) == from_status("AuthenticatorNotRegistered")

\* The response composed when no authenticator is registered.
not_registered_response(req) ==
    from_request_header(req.header, "AuthenticatorNotRegistered")

\* Variant: a failed write is tried again.
after_write_retry(ok) == IF ok THEN "returned" ELSE "respond"

\* Where handle_request goes after write_to_stream returned: both arms only
\* log, then the function returns.
after_write(ok) == "returned"

\* handle_request is entered with a stream and reads the request from it.
ReadRequest(w, wire) ==
    /\ Serving
    /\ pc[w] = "idle"
    /\ LET result == read_from_stream(wire, handler.body_len_limit) IN
         /\ input' = [input EXCEPT ![w] = Some(wire)]
         /\ events' = [events EXCEPT ![w] = Append(@, ReadEvent(handler.body_len_limit))]
         /\ IF result.ok
            THEN /\ request' = [request EXCEPT ![w] = Some(result.val)]
                 /\ pc' = [pc EXCEPT ![w] = "have_request"]
                 /\ UNCHANGED response
            ELSE /\ response' = [response EXCEPT ![w] =
                                     Some(read_failure_response(wire, result.err))]
                 /\ pc' = [pc EXCEPT ![w] = "read_failed"]
                 /\ UNCHANGED request
    /\ UNCHANGED <<builderVars, output, app_name, keyVars>>

\* Variant: a read failure returns without a reply.
WriteReadFailure_silent(w, ok) ==
    /\ pc[w] = "read_failed"
    /\ pc' = [pc EXCEPT ![w] = "returned"]
    /\ UNCHANGED <<builderVars, input, output, request, response, app_name, events, keyVars>>

\* The write of the read-failure response, then return.
WriteReadFailure(w, ok) ==
    /\ pc[w] = "read_failed"
    /\ events' = [events EXCEPT ![w] = Append(@, WriteEvent(unwrap(response[w]), ok))]
    /\ output' = [output EXCEPT ![w] = IF ok THEN Append(@, unwrap(response[w])) ELSE @]
    /\ pc' = [pc EXCEPT ![w] = after_write(ok)]
    /\ UNCHANGED <<builderVars, input, request, response, app_name, keyVars>>

\* auth type NoAuth: dispatch with no identity.
DispatchNoAuth(w) ==
    /\ pc[w] = "have_request"
    /\ route(handler, unwrap(request[w])) = "dispatch"
    /\ LET req == unwrap(request[w]) IN
         /\ events' = [events EXCEPT ![w] =
                 Append(@, DispatchEvent(handler.dispatcher, req, None))]
         /\ response' = [response EXCEPT ![w] =
                 Some(dispatch_request(handler.dispatcher, req, None))]
    /\ pc' = [pc EXCEPT ![w] = "respond"]
    /\ UNCHANGED <<builderVars, input, output, request, app_name, keyVars>>

\* Variant: the verified identity is kept in a place all invocations share.
Authenticate_shared_identity(w) ==
    /\ pc[w] = "have_request"
    /\ route(handler, unwrap(request[w])) = "authenticate"
    /\ LET req == unwrap(request[w])
           authenticator == lookup(handler, req)
           result == authenticate(authenticator, req.auth)
       IN
         /\ events' = [events EXCEPT ![w] =
                 Append(@, AuthenticateEvent(authenticator, req.auth))]
         /\ IF result.ok
            THEN /\ app_name' = [v \in Workers |-> Some(result.val)]
                 /\ pc' = [pc EXCEPT ![w] = "authenticated"]
                 /\ UNCHANGED response
            ELSE /\ response' = [response EXCEPT ![w] =
                         Some(auth_failure_response(req, result.err))]
                 /\ pc' = [pc EXCEPT ![w] = "respond"]
                 /\ UNCHANGED app_name
    /\ UNCHANGED <<builderVars, input, output, request, keyVars>>

\* An authenticator is registered for the auth type: authenticate.
Authenticate(w) ==
    /\ pc[w] = "have_request"
    /\ route(handler, unwrap(request[w])) = "authenticate"
    /\ LET req == unwrap(request[w])
           authenticator == lookup(handler, req)
           result == authenticate(authenticator, req.auth)
       IN
         /\ events' = [events EXCEPT ![w] =
                 Append(@, AuthenticateEvent(authenticator, req.auth))]
         /\ IF result.ok
            THEN /\ app_name' = [app_name EXCEPT ![w] = authenticated_identity(result.val)]
                 /\ pc' = [pc EXCEPT ![w] = "authenticated"]
                 /\ UNCHANGED response
            ELSE /\ response' = [response EXCEPT ![w] =
                         Some(auth_failure_response(req, result.err))]
                 /\ pc' = [pc EXCEPT ![w] = "respond"]
                 /\ UNCHANGED app_name
    /\ UNCHANGED <<builderVars, input, output, request, keyVars>>

\* authenticate returned Ok(app_name): dispatch with that identity.
DispatchAuthenticated(w) ==
    /\ pc[w] = "authenticated"
    /\ LET req == unwrap(request[w]) IN
         /\ events' = [events EXCEPT ![w] =
                 Append(@, DispatchEvent(handler.dispatcher, req, app_name[w]))]
         /\ response' = [response EXCEPT ![w] =
                 Some(dispatch_request(handler.dispatcher, req, app_name[w]))]
    /\ pc' = [pc EXCEPT ![w] = "respond"]
    /\ UNCHANGED <<builderVars, input, output, request, app_name, keyVars>>

\* No authenticator is registered for the auth type.
NotRegistered(w) ==
    /\ pc[w] = "have_request"
    /\ route(handler, unwrap(request[w])) = "not_registered"
    /\ response' = [response EXCEPT ![w] =
            Some(not_registered_response(unwrap(request[w])))]
    /\ pc' = [pc EXCEPT ![w] = "respond"]
    /\ UNCHANGED <<builderVars, input, output, request, app_name, events, keyVars>>

\* The write of the response, then return.
WriteResponse(w, ok) ==
    /\ pc[w] = "respond"
    /\ events' = [events EXCEPT ![w] = Append(@, WriteEvent(unwrap(response[w]), ok))]
    /\ output' = [output EXCEPT ![w] = IF ok THEN Append(@, unwrap(response[w])) ELSE @]
    /\ pc' = [pc EXCEPT ![w] = after_write(ok)]
    /\ UNCHANGED <<builderVars, input, request, response, app_name, keyVars>>

\* handle_request has returned; its locals and the stream are dropped and
\* the worker is free to take the next connection.
Return(w) ==
    /\ pc[w] = "returned"
    /\ pc' = [pc EXCEPT ![w] = "idle"]
    /\ input' = [input EXCEPT ![w] = None]
    /\ output' = [output EXCEPT ![w] = <<>>]
    /\ request' = [request EXCEPT ![w] = None]
    /\ response' = [response EXCEPT ![w] = None]
    /\ app_name' = [app_name EXCEPT ![w] = None]
    /\ events' = [events EXCEPT ![w] = <<>>]
    /\ UNCHANGED <<builderVars, keyVars>>

Next ==
    \/ NewBuilder
    \/ \E d \in Dispatchers : WithDispatcher(d)
    \/ \E t \in AuthTypes, a \in Authenticators : WithAuthenticator(t, a)
    \/ \E n \in Limits : WithBodyLenLimit(n)
    \/ Build
    \/ \E w \in Workers, wire \in Wires : ReadRequest(w, wire)
    \/ \E w \in Workers, ok \in BOOLEAN : WriteReadFailure(w, ok)
    \/ \E w \in Workers : DispatchNoAuth(w)
    \/ \E w \in Workers : Authenticate(w)
    \/ \E w \in Workers : DispatchAuthenticated(w)
    \/ \E w \in Workers : NotRegistered(w)
    \/ \E w \in Workers, ok \in BOOLEAN : WriteResponse(w, ok)
    \/ \E w \in Workers : Return(w)

Spec == Init /\ [][Next]_vars

\* ------------------------------------------------- key mapping operations
\* The entries the store holds for a triple.
entries_of(store, triple) == {e \in store : KeyTriple_eq(e.triple, triple)}

\* ManageKeyIDs::get: the key info of the triple, or None.
ManageKeyIDs_get(store, triple) == {e.info : e \in entries_of(store, triple)}

\* ManageKeyIDs::get_all: the triples of the provider.
ManageKeyIDs_get_all(store, provider_id) ==
    {e.triple : e \in {x \in store : belongs_to_provider(x.triple, provider_id)}}

\* ManageKeyIDs::exists
ManageKeyIDs_exists(store, triple) == entries_of(store, triple) # {}

\* Variant: an existing mapping is kept, the new key info is dropped.
ManageKeyIDs_insert_keep(store, triple, info) ==
    [store |-> IF entries_of(store, triple) # {} THEN store
               ELSE store \cup {[triple |-> triple, info |-> info]},
     ret |-> ManageKeyIDs_get(store, triple)]

\* ManageKeyIDs::insert: the store after the call (the old mapping of the
\* triple is overwritten) and the old KeyInfo it returns.
ManageKeyIDs_insert(store, triple, info) ==
    [store |-> (store \ entries_of(store, triple)) \cup
                   {[triple |-> triple, info |-> info]},
     ret |-> ManageKeyIDs_get(store, triple)]

\* Variant: the mapping is returned but stays in the store.
ManageKeyIDs_remove_peek(store, triple) ==
    [store |-> store, ret |-> ManageKeyIDs_get(store, triple)]

\* ManageKeyIDs::remove: the store after the call and the KeyInfo it returns.
ManageKeyIDs_remove(store, triple) ==
    [store |-> store \ entries_of(store, triple),
     ret |-> ManageKeyIDs_get(store, triple)]

\* Variant: the call returns before the mapping is written out.
flush_deferred(old_disk, store) == old_disk

\* What a successful insert or remove leaves in persistent storage before
\* it returns: the mapping it has produced.
flush(old_disk, store) == store

\* What a restarted service finds: the mapping read back from storage.
load(stored) == stored

\* No caller is inside an insert or remove.
Quiescent == lock = None /\ \A c \in Callers : kpc[c] = "idle"

\* Variant: a get takes the entry out of the mapping.
KeyGet_take(triple, fail) ==
    /\ Quiescent
    /\ klast' = KeyReturn(KeyCall("get", Some(triple), None, None),
                          TRUE, ManageKeyIDs_get(key_store, triple), {}, FALSE)
    /\ key_store' = ManageKeyIDs_remove(key_store, triple).store
    /\ UNCHANGED <<frontVars, disk, callerVars>>

KeyGet(triple, fail) ==
    /\ Quiescent
    /\ klast' = IF fail
                THEN KeyReturn(KeyCall("get", Some(triple), None, None),
                               FALSE, None, {}, FALSE)
                ELSE KeyReturn(KeyCall("get", Some(triple), None, None),
                               TRUE, ManageKeyIDs_get(key_store, triple), {}, FALSE)
    /\ UNCHANGED <<frontVars, storeVars, callerVars>>

KeyGetAll(provider_id, fail) ==
    /\ Quiescent
    /\ klast' = IF fail
                THEN KeyReturn(KeyCall("get_all", None, Some(provider_id), None),
                               FALSE, None, {}, FALSE)
                ELSE KeyReturn(KeyCall("get_all", None, Some(provider_id), None),
                               TRUE, None,
                               ManageKeyIDs_get_all(key_store, provider_id), FALSE)
    /\ UNCHANGED <<frontVars, storeVars, callerVars>>

KeyExists(triple, fail) ==
    /\ Quiescent
    /\ klast' = IF fail
                THEN KeyReturn(KeyCall("exists", Some(triple), None, None),
                               FALSE, None, {}, FALSE)
                ELSE KeyReturn(KeyCall("exists", Some(triple), None, None),
                               TRUE, None, {},
                               ManageKeyIDs_exists(key_store, triple))
    /\ UNCHANGED <<frontVars, storeVars, callerVars>>

KeyInsert(triple, info, fail) ==
    /\ Quiescent
    /\ ManageKeyIDs_exists(key_store, triple) \/ Cardinality(key_store) < MaxKeys
    /\ LET call == KeyCall("insert", Some(triple), None, Some(info))
           r == ManageKeyIDs_insert(key_store, triple, info)
       IN
         IF fail
         THEN /\ klast' = KeyReturn(call, FALSE, None, {}, FALSE)
              /\ UNCHANGED storeVars
         ELSE /\ key_store' = r.store
              /\ disk' = flush(disk, r.store)
              /\ klast' = KeyReturn(call, TRUE, r.ret, {}, FALSE)
    /\ UNCHANGED <<frontVars, callerVars>>

KeyRemove(triple, fail) ==
    /\ Quiescent
    /\ LET call == KeyCall("remove", Some(triple), None, None)
           r == ManageKeyIDs_remove(key_store, triple)
       IN
         IF fail
         THEN /\ klast' = KeyReturn(call, FALSE, None, {}, FALSE)
              /\ UNCHANGED storeVars
         ELSE /\ key_store' = r.store
              /\ disk' = flush(disk, r.store)
              /\ klast' = KeyReturn(call, TRUE, r.ret, {}, FALSE)
    /\ UNCHANGED <<frontVars, callerVars>>

\* The service process stops and starts again: memory is lost, the mapping
\* is read back from persistent storage.
Restart ==
    /\ Quiescent
    /\ key_store' = load(disk)
    /\ klast' = KeyReturn(KeyCall("restart", None, None, None), TRUE, None, {}, FALSE)
    /\ UNCHANGED <<frontVars, disk, callerVars>>

KeyNext ==
    \/ \E t \in KeyTriples, fail \in BOOLEAN : KeyGet(t, fail)
    \/ \E p \in Providers, fail \in BOOLEAN : KeyGetAll(p, fail)
    \/ \E t \in KeyTriples, fail \in BOOLEAN : KeyExists(t, fail)
    \/ \E t \in KeyTriples, r \in KeyInfos, fail \in BOOLEAN : KeyInsert(t, r, fail)
    \/ \E t \in KeyTriples, fail \in BOOLEAN : KeyRemove(t, fail)
    \/ Restart

KeySpec == Init /\ [][KeyNext]_vars

\* ------------------------------------------------------------ vocabulary
\* Worker w is inside handle_request (or has just returned from it).
Invoked(w) == pc[w] # "idle"

\* What read_from_stream yields for the stream worker w was given.
ReadResult(w) == read_from_stream(unwrap(input[w]), handler.body_len_limit)

\* Positions in w's call log of the calls to `op`.
Calls(w, op) == {i \in 1..Len(events[w]) : events[w][i].op = op}

\* The responses w attempted to write, in order of the attempts.
WriteAttempts(w) ==
    {events[w][i].response : i \in Calls(w, "write_to_stream")}

\* ------------------------------------------------------------------ claims
\* C1: when reading the request fails (malformed stream, or body over the
\* limit) the invocation calls no authenticator and no dispatcher, and the
\* only response it attempts to write is Response::from_status of the read
\* failure's status, which echoes no request header.
C1_ReadFailureIsolated ==
    \A w \in Workers :
        (Invoked(w) /\ ~ReadResult(w).ok) =>
            /\ Calls(w, "authenticate") = {}
            /\ Calls(w, "dispatch_request") = {}
            /\ WriteAttempts(w) \subseteq {from_status(ReadResult(w).err)}
            /\ \A r \in WriteAttempts(w) : r.header = None
            /\ pc[w] = "returned" => WriteAttempts(w) # {}

\* A well-formed request over the body length limit was refused and answered.
C1_Witness ==
    \E w \in Workers :
        /\ pc[w] = "returned"
        /\ unwrap(input[w]).wellformed
        /\ ~ReadResult(w).ok
        /\ ReadResult(w).err = "BodySizeExceedsLimit"
        /\ unwrap(input[w]).request.header.auth_type # "NoAuth"
        /\ unwrap(input[w]).request.header.auth_type \in DOMAIN handler.authenticators

\* C2: an invocation makes no write attempt before its last step and exactly
\* one by the time it returns, on every path, and that write attempt is the
\* last call of the invocation.
C2_ExactlyOneWrite ==
    \A w \in Workers :
        LET writes == Calls(w, "write_to_stream") IN
            /\ pc[w] = "returned" =>
                   /\ Cardinality(writes) = 1
                   /\ writes = {Len(events[w])}
            /\ pc[w] # "returned" => writes = {}

\* Two invocations have returned, one after a read failure and one after an
\* authenticated dispatch.
C2_Witness ==
    \E w1, w2 \in Workers :
        /\ pc[w1] = "returned" /\ ~ReadResult(w1).ok
        /\ pc[w2] = "returned" /\ Calls(w2, "authenticate") # {}
        /\ Calls(w2, "dispatch_request") # {}

\* C3: the dispatcher is called at most once per invocation, with the
\* handler's dispatcher and the request that was read, and only when the auth
\* type is NoAuth (identity None) or the authenticator registered for the
\* auth type was called and returned Ok (identity Some of what it returned).
C3_DispatchOnlyWhenAllowed ==
    \A w \in Workers :
        /\ Cardinality(Calls(w, "dispatch_request")) <= 1
        /\ \A i \in Calls(w, "dispatch_request") :
             LET e == events[w][i]
                 req == unwrap(request[w])
                 t == req.header.auth_type
             IN
               /\ request[w] # None
               /\ e.dispatcher = handler.dispatcher
               /\ e.request = req
               /\ \/ t = "NoAuth" /\ e.app_name = None
                  \/ /\ t # "NoAuth"
                     /\ t \in DOMAIN handler.authenticators
                     /\ \E j \in Calls(w, "authenticate") :
                            /\ j < i
                            /\ events[w][j].authenticator = handler.authenticators[t]
                     /\ authenticate(handler.authenticators[t], req.auth).ok
                     /\ e.app_name =
                            Some(authenticate(handler.authenticators[t], req.auth).val)

\* A request was dispatched with the identity its authenticator verified.
C3_Witness ==
    \E w \in Workers :
        /\ Calls(w, "dispatch_request") # {}
        /\ unwrap(request[w]).header.auth_type # "NoAuth"
        /\ \E i \in Calls(w, "dispatch_request") : events[w][i].app_name = Some("app1")

\* The request worker w read, once read_from_stream succeeded.
HasRequest(w) == Invoked(w) /\ request[w] # None
Req(w) == unwrap(request[w])

\* w's invocation has composed its response (and possibly tried to write it).
Composed(w) == pc[w] \in {"respond", "returned"}

\* C4: for a request that was read, whose auth type is not NoAuth and has no
\* entry in the registry, the response is built from the request's header
\* with status AuthenticatorNotRegistered, it is the response written, and
\* neither the dispatcher nor any authenticator is called.
C4_NotRegistered ==
    \A w \in Workers :
        (/\ HasRequest(w)
         /\ Req(w).header.auth_type # "NoAuth"
         /\ Req(w).header.auth_type \notin DOMAIN handler.authenticators) =>
            LET expected ==
                    [header |-> Some(Req(w).header),
                     status |-> "AuthenticatorNotRegistered", body |-> None]
            IN
              /\ Calls(w, "authenticate") = {}
              /\ Calls(w, "dispatch_request") = {}
              /\ Composed(w) => response[w] = Some(expected)
              /\ pc[w] = "returned" => WriteAttempts(w) = {expected}

\* A request of an unregistered auth type was answered on the stream.
C4_Witness ==
    \E w \in Workers :
        /\ pc[w] = "returned"
        /\ request[w] # None
        /\ Req(w).header.auth_type = "Direct"
        /\ "Direct" \notin DOMAIN handler.authenticators
        /\ Len(output[w]) = 1
        /\ output[w][1].status = "AuthenticatorNotRegistered"

\* C5: for a request that was read and whose registered authenticator
\* returns the failure status S, the response is built from the request's
\* header with exactly S, it is the response written, and the dispatcher is
\* not called.
C5_AuthFailureStatus ==
    \A w \in Workers :
        (/\ HasRequest(w)
         /\ Req(w).header.auth_type # "NoAuth"
         /\ Req(w).header.auth_type \in DOMAIN handler.authenticators
         /\ ~authenticate(handler.authenticators[Req(w).header.auth_type],
                          Req(w).auth).ok) =>
            LET S == authenticate(handler.authenticators[Req(w).header.auth_type],
                                  Req(w).auth).err
                expected ==
                    [header |-> Some(Req(w).header), status |-> S, body |-> None]
            IN
              /\ Calls(w, "dispatch_request") = {}
              /\ Composed(w) => response[w] = Some(expected)
              /\ pc[w] = "returned" => WriteAttempts(w) = {expected}

\* Two requests were rejected by their authenticators with different
\* statuses, and both rejections were answered.
C5_Witness ==
    \E w1, w2 \in Workers :
        /\ pc[w1] = "returned" /\ pc[w2] = "returned"
        /\ Calls(w1, "authenticate") # {} /\ Calls(w2, "authenticate") # {}
        /\ \E r \in WriteAttempts(w1) : r.status = "AuthenticationError"
        /\ \E r \in WriteAttempts(w2) : r.status = "WrongAuthToken"

\* C6: for a request that was read with auth type NoAuth no authenticator is
\* called, also when the registry holds an entry under NoAuth; the request is
\* dispatched with identity None and the response written is the
\* dispatcher's response, unmodified.
C6_NoAuthBypassesRegistry ==
    \A w \in Workers :
        (HasRequest(w) /\ Req(w).header.auth_type = "NoAuth") =>
            LET expected == dispatch_request(handler.dispatcher, Req(w), None) IN
              /\ Calls(w, "authenticate") = {}
              /\ \A i \in Calls(w, "dispatch_request") :
                     events[w][i].app_name = None
              /\ Composed(w) =>
                     /\ Cardinality(Calls(w, "dispatch_request")) = 1
                     /\ response[w] = Some(expected)
              /\ pc[w] = "returned" =>
                     /\ WriteAttempts(w) = {expected}
                     /\ output[w] \in {<<>>, <<expected>>}

\* A NoAuth request was served by a handler whose registry has a NoAuth entry
\* that would have rejected it, and the dispatcher's response reached the
\* stream.
C6_Witness ==
    \E w \in Workers :
        /\ pc[w] = "returned"
        /\ request[w] # None
        /\ Req(w).header.auth_type = "NoAuth"
        /\ "NoAuth" \in DOMAIN handler.authenticators
        /\ ~authenticate(handler.authenticators["NoAuth"], Req(w).auth).ok
        /\ Len(output[w]) = 1
        /\ output[w][1].body # None

\* C7: within one invocation authenticate is called at most once over all
\* registered authenticators, and the call goes to the authenticator
\* registered for the request's auth type, with the request's auth payload.
C7_AuthenticateOnceOnRegistered ==
    \A w \in Workers :
        /\ Cardinality(Calls(w, "authenticate")) <= 1
        /\ \A i \in Calls(w, "authenticate") :
             /\ request[w] # None
             /\ Req(w).header.auth_type \in DOMAIN handler.authenticators
             /\ events[w][i].authenticator =
                    handler.authenticators[Req(w).header.auth_type]
             /\ events[w][i].auth = Req(w).auth

\* authenticate was called for a request while the registry holds a different
\* authenticator under another auth type.
C7_Witness ==
    \E w \in Workers :
        /\ pc[w] = "returned"
        /\ Calls(w, "authenticate") # {}
        /\ \E t \in DOMAIN handler.authenticators :
               /\ t # Req(w).header.auth_type
               /\ handler.authenticators[t] #
                      handler.authenticators[Req(w).header.auth_type]

\* C8: a failed response write, on the read-failure path or on the normal
\* path, is the last call of the invocation and the invocation has returned
\* to its caller: no second write, no further authenticator or dispatcher
\* call, nothing written to the stream.
C8_WriteFailureSwallowed ==
    \A w \in Workers :
        \A i \in Calls(w, "write_to_stream") :
            ~events[w][i].ok =>
                /\ i = Len(events[w])
                /\ Cardinality(Calls(w, "write_to_stream")) = 1
                /\ pc[w] = "returned"
                /\ output[w] = <<>>

\* Two invocations have returned after their write failed, one on the
\* read-failure path and one after a dispatch.
C8_Witness ==
    \E w1, w2 \in Workers :
        /\ pc[w1] = "returned" /\ request[w1] = None
        /\ pc[w2] = "returned" /\ Calls(w2, "dispatch_request") # {}
        /\ \A w \in {w1, w2} :
               \E i \in Calls(w, "write_to_stream") : ~events[w][i].ok

\* Which setters were called at least once since the builder was created.
DispatcherSupplied == supplied.dispatcher # None
AuthenticatorSupplied == \E t \in AuthTypes : supplied.authenticators[t] # None
LimitSupplied == supplied.body_len_limit # None

\* The registry that the with_authenticator calls made so far describe: each
\* auth type that was registered, with the authenticator of its last call.
SuppliedRegistry ==
    [t \in {u \in AuthTypes : supplied.authenticators[u] # None} |->
        unwrap(supplied.authenticators[t])]

\* C9: build succeeds exactly when with_dispatcher, with_authenticator and
\* with_body_len_limit were each called at least once; when exactly one of
\* them was never called, build fails with the error naming that field and
\* yields no handler.
C9_BuildRequiresAllThree ==
    build_result # None =>
        LET r == unwrap(build_result) IN
          /\ r.ok <=> (DispatcherSupplied /\ AuthenticatorSupplied /\ LimitSupplied)
          /\ (~DispatcherSupplied /\ AuthenticatorSupplied /\ LimitSupplied) =>
                 r = [ok |-> FALSE, err |-> "dispatcher is missing"]
          /\ (DispatcherSupplied /\ ~AuthenticatorSupplied /\ LimitSupplied) =>
                 r = [ok |-> FALSE, err |-> "authenticators is missing"]
          /\ (DispatcherSupplied /\ AuthenticatorSupplied /\ ~LimitSupplied) =>
                 r = [ok |-> FALSE, err |-> "body_len_limit is missing"]

\* build was called on a builder that had a dispatcher and authenticators
\* but no body length limit.
C9_Witness ==
    /\ build_result # None
    /\ DispatcherSupplied /\ AuthenticatorSupplied /\ ~LimitSupplied
    /\ Cardinality({t \in AuthTypes : supplied.authenticators[t] # None}) = 2

\* C10: the builder holds, for each field, the last value its setter was
\* given and nothing for a field whose setter was not called; its registry
\* maps every auth type registered so far to the authenticator of the last
\* with_authenticator call for that type; and a built handler holds exactly
\* these values.
C10_SettersLastWriteWins ==
    /\ builder.dispatcher = supplied.dispatcher
    /\ builder.body_len_limit = supplied.body_len_limit
    /\ builder.authenticators =
           (IF AuthenticatorSupplied THEN Some(SuppliedRegistry) ELSE None)
    /\ Serving =>
           /\ handler.dispatcher = unwrap(supplied.dispatcher)
           /\ handler.body_len_limit = unwrap(supplied.body_len_limit)
           /\ handler.authenticators = SuppliedRegistry

\* A handler was built after a setter call replaced an earlier value, and its
\* registry holds two auth types with different authenticators.
C10_Witness ==
    /\ Serving
    /\ supplied.replaced
    /\ \E t, u \in DOMAIN handler.authenticators :
           handler.authenticators[t] # handler.authenticators[u]

\* ------------------------------------------------------ key mapping claims
\* The records a mapping holds for a triple, by the triple's three fields.
Mapped(store, triple) == {e.info : e \in {x \in store : x.triple = triple}}

\* The last completed call was a successful `op`.
Returned(ret, op) == ret.op = op /\ ret.ok

\* C11: insert is an upsert that replaces: a successful insert(T, R) returns
\* the record that was mapped to T before the call (None if there was none)
\* and leaves T mapped to exactly R; a get(T) that follows it returns
\* Some(R); an insert(T, R2) that follows an insert(T, R1) returns Some(R1);
\* and the mapping never holds more than one record for a triple.
C11_InsertReplaces ==
    /\ [](\A t \in KeyTriples : Cardinality(Mapped(key_store, t)) <= 1)
    /\ [][Returned(klast', "insert") =>
            LET T == unwrap(klast'.triple)
                R == unwrap(klast'.info)
            IN
              /\ klast'.ret_info = Mapped(key_store, T)
              /\ Mapped(key_store', T) = {R}
              /\ (Returned(klast, "insert") /\ klast.triple = klast'.triple) =>
                     klast'.ret_info = klast.info]_vars
    /\ [][(/\ Returned(klast, "insert")
           /\ Returned(klast', "get")
           /\ klast'.triple = klast.triple) =>
              klast'.ret_info = klast.info]_vars

\* An insert replaced a different record and returned the replaced one.
C11_Witness ==
    /\ Returned(klast, "insert")
    /\ klast.ret_info # None
    /\ klast.ret_info # klast.info
    /\ Cardinality(key_store) = 2

\* C12: a successful remove(T) returns the record mapped to T and deletes
\* it: removing a triple right after inserting it returns the record that
\* was inserted, and a get(T) or exists(T) that follows the remove returns
\* None or false; when T is not mapped, remove(T) returns None and leaves the
\* mapping as it was.
C12_RemoveReturnsAndDeletes ==
    /\ [][Returned(klast', "remove") =>
            LET T == unwrap(klast'.triple) IN
              /\ klast'.ret_info = Mapped(key_store, T)
              /\ Mapped(key_store', T) = {}
              /\ Mapped(key_store, T) = {} =>
                     /\ klast'.ret_info = None
                     /\ key_store' = key_store
                     /\ disk' = disk
              /\ (Returned(klast, "insert") /\ klast.triple = klast'.triple) =>
                     klast'.ret_info = klast.info]_vars
    /\ [][(/\ Returned(klast, "remove")
           /\ klast'.triple = klast.triple
           /\ klast'.ok) =>
              /\ klast'.op = "get" => klast'.ret_info = None
              /\ klast'.op = "exists" => klast'.ret_flag = FALSE]_vars

\* A remove returned the record of a mapped triple and left another key in
\* the mapping.
C12_Witness ==
    /\ Returned(klast, "remove")
    /\ klast.ret_info # None
    /\ Cardinality(key_store) = 1
    /\ Mapped(key_store, unwrap(klast.triple)) = {}

\* C13: a successful get_all(P) returns exactly the triples that are mapped
\* and whose provider_id is P: all of them, and no triple of another
\* provider, whatever its application name and key name.
C13_GetAllByProvider ==
    Returned(klast, "get_all") =>
        LET P == unwrap(klast.provider) IN
          /\ klast.ret_triples =
                 {t \in KeyTriples : Mapped(key_store, t) # {} /\ t.provider_id = P}
          /\ \A t \in klast.ret_triples : t.provider_id = P

\* get_all returned the one key of its provider while the mapping also holds
\* a key of the other provider with the same application and key name.
C13_Witness ==
    /\ Returned(klast, "get_all")
    /\ Cardinality(klast.ret_triples) = 1
    /\ \E t \in klast.ret_triples, e \in key_store :
           /\ e.triple.provider_id # t.provider_id
           /\ e.triple.app_name = t.app_name
           /\ e.triple.key_name = t.key_name

\* ------------------------------------------------------ concurrent callers
\* The triple the concurrent callers contend for.
HotTriple == KeyTriple_new("app1", "MbedCrypto", "k1")

\* The insert and remove calls the concurrent callers make.
HotCalls ==
    {KeyCall("insert", Some(HotTriple), None, Some(r)) : r \in KeyInfos}
        \cup {KeyCall("remove", Some(HotTriple), None, None)}

\* Variant: insert and remove run on a shared reference, without exclusion.
exclusive_unchecked(c) == TRUE

\* insert and remove take &mut self: the caller gets the mapping only while
\* no other caller holds it.
exclusive(c) == lock = None

\* The effect and the return value of a call that runs alone on a store.
apply_call(store, call) ==
    IF call.op = "insert"
    THEN ManageKeyIDs_insert(store, unwrap(call.triple), unwrap(call.info))
    ELSE ManageKeyIDs_remove(store, unwrap(call.triple))

\* A caller invokes insert or remove.
CallBegin(c, call) ==
    /\ kpc[c] = "idle"
    /\ kpc' = [kpc EXCEPT ![c] = "called"]
    /\ kcall' = [kcall EXCEPT ![c] = call]
    /\ kbefore' = [kbefore EXCEPT ![c] = {d \in Callers : kpc[d] = "returned"}]
    /\ UNCHANGED <<frontVars, storeVars, klast, lock, kold, kret, snapshot>>

\* The caller obtains the mapping and looks its triple up.
LockAndRead(c) ==
    /\ kpc[c] = "called"
    /\ exclusive(c)
    /\ lock' = Some(c)
    /\ kold' = [kold EXCEPT ![c] = ManageKeyIDs_get(key_store, unwrap(kcall[c].triple))]
    /\ kpc' = [kpc EXCEPT ![c] = "holding"]
    /\ UNCHANGED <<frontVars, storeVars, klast, kcall, kret, kbefore, snapshot>>

\* The caller updates the mapping, persists it, gives the mapping back and
\* returns the entry it had found.
WriteAndReturn(c) ==
    /\ kpc[c] = "holding"
    /\ LET r == apply_call(key_store, kcall[c]) IN
         /\ key_store' = r.store
         /\ disk' = flush(disk, r.store)
    /\ kret' = [kret EXCEPT ![c] = kold[c]]
    /\ lock' = None
    /\ kpc' = [kpc EXCEPT ![c] = "returned"]
    /\ UNCHANGED <<frontVars, klast, kcall, kold, kbefore, snapshot>>

\* All calls have returned and their results were taken: the callers are
\* ready for their next calls.
Quiesce ==
    /\ \A c \in Callers : kpc[c] \in {"idle", "returned"}
    /\ \E c \in Callers : kpc[c] = "returned"
    /\ kpc' = [c \in Callers |-> "idle"]
    /\ kcall' = [c \in Callers |-> NoKeyCall]
    /\ kold' = [c \in Callers |-> None]
    /\ kret' = [c \in Callers |-> None]
    /\ kbefore' = [c \in Callers |-> {}]
    /\ snapshot' = key_store
    /\ UNCHANGED <<frontVars, storeVars, klast, lock>>

KeyConcNext ==
    \/ \E c \in Callers, call \in HotCalls : CallBegin(c, call)
    \/ \E c \in Callers : LockAndRead(c)
    \/ \E c \in Callers : WriteAndReturn(c)
    \/ Quiesce

KeyConcSpec == Init /\ [][KeyConcNext]_vars

\* The callers whose calls have returned since the last quiescent point.
ReturnedCallers == {c \in Callers : kpc[c] = "returned"}

\* The orders in which the returned calls could have run one after another.
SequentialOrders ==
    {o \in [1..Cardinality(ReturnedCallers) -> ReturnedCallers] :
        \A i, j \in DOMAIN o : i # j => o[i] # o[j]}

\* Running the calls of `order` from position i on, one after another.
RECURSIVE RunSequentially(_, _, _)
RunSequentially(store, order, i) ==
    IF i > Len(order) THEN [store |-> store, rets |-> <<>>]
    ELSE LET r == apply_call(store, kcall[order[i]])
             rest == RunSequentially(r.store, order, i + 1)
         IN [store |-> rest.store, rets |-> <<r.ret>> \o rest.rets]

\* C14: concurrent insert and remove calls on one triple are linearizable:
\* at every moment the values returned so far and the mapping are those of
\* running the returned calls one after another, from the mapping of the
\* last quiescent point, in an order that keeps a call that returned before
\* another was made ahead of it.
C14_Linearizable ==
    \E o \in SequentialOrders :
        LET run == RunSequentially(snapshot, o, 1) IN
          /\ \A i, j \in DOMAIN o : i < j => o[j] \notin kbefore[o[i]]
          /\ \A i \in DOMAIN o : run.rets[i] = kret[o[i]]
          /\ run.store = key_store
          /\ disk = key_store

\* Two overlapping removes of a mapped triple have returned: one got the
\* record, the other got None.
C14_Witness ==
    /\ \A c \in Callers :
           kpc[c] = "returned" /\ kcall[c].op = "remove" /\ kbefore[c] = {}
    /\ snapshot # {}
    /\ \E c, d \in Callers : kret[c] # None /\ kret[d] = None

\* C15: once an insert or remove has returned success its effect is in
\* persistent storage (the inserted record is stored for the triple, the
\* removed triple is not stored), what storage holds is what the mapping
\* holds, and a restart leaves every triple mapped as it was.
C15_Durable ==
    /\ [](/\ Returned(klast, "insert") =>
                 Mapped(disk, unwrap(klast.triple)) = klast.info
          /\ Returned(klast, "remove") =>
                 Mapped(disk, unwrap(klast.triple)) = {}
          /\ \A t \in KeyTriples : Mapped(disk, t) = Mapped(key_store, t))
    /\ [][klast'.op = "restart" =>
            \A t \in KeyTriples : Mapped(key_store', t) = Mapped(key_store, t)]_vars

\* The service was restarted and the mapping still holds two keys.
C15_Witness ==
    /\ klast.op = "restart"
    /\ Cardinality(key_store) = 2

\* ------------------------------------------------ front end claims, second part
\* The calls and the response of an invocation that runs alone on handler h
\* with the stream content `wire`, up to the write.
SoloRun(h, wire) ==
    LET read == read_from_stream(wire, h.body_len_limit)
        first == <<[op |-> "read_from_stream", limit |-> h.body_len_limit]>>
    IN
      IF ~read.ok
      THEN [calls |-> first, response |-> from_status(read.err)]
      ELSE LET req == read.val
               t == req.header.auth_type
           IN
             IF t = "NoAuth"
             THEN [calls |-> first \o
                       <<[op |-> "dispatch_request", dispatcher |-> h.dispatcher,
                          request |-> req, app_name |-> None]>>,
                   response |-> dispatch_request(h.dispatcher, req, None)]
             ELSE IF t \notin DOMAIN h.authenticators
             THEN [calls |-> first,
                   response |-> from_request_header(req.header,
                                                    "AuthenticatorNotRegistered")]
             ELSE LET a == h.authenticators[t]
                      res == authenticate(a, req.auth)
                      second == <<[op |-> "authenticate", authenticator |-> a,
                                   auth |-> req.auth]>>
                  IN
                    IF res.ok
                    THEN [calls |-> first \o second \o
                              <<[op |-> "dispatch_request",
                                 dispatcher |-> h.dispatcher, request |-> req,
                                 app_name |-> Some(res.val)]>>,
                          response |->
                              dispatch_request(h.dispatcher, req, Some(res.val))]
                    ELSE [calls |-> first \o second,
                          response |-> from_request_header(req.header, res.err)]

\* s is an initial part of t.
IsPrefix(s, t) == Len(s) <= Len(t) /\ \A i \in 1..Len(s) : s[i] = t[i]

\* C16: handle_request never modifies the handler and a step of one
\* invocation leaves the state of every other invocation alone; so in every
\* interleaving the calls an invocation makes and the response it writes are
\* those of the same invocation running alone on the handler with its own
\* stream, whatever other requests run at the same time or ran before.
C16_InvocationsIndependent ==
    /\ [](\A w \in Workers :
            Invoked(w) =>
                LET solo == SoloRun(handler, unwrap(input[w])) IN
                  /\ pc[w] # "returned" => IsPrefix(events[w], solo.calls)
                  /\ Composed(w) => response[w] = Some(solo.response)
                  /\ pc[w] = "returned" =>
                         \E ok \in BOOLEAN :
                             /\ events[w] = solo.calls \o
                                    <<[op |-> "write_to_stream",
                                       response |-> solo.response, ok |-> ok]>>
                             /\ output[w] = IF ok THEN <<solo.response>> ELSE <<>>)
    /\ [][Serving => build_result' = build_result]_vars
    /\ [][\A w \in Workers :
            pc'[w] # pc[w] =>
                \A v \in Workers \ {w} :
                    /\ pc'[v] = pc[v] /\ input'[v] = input[v]
                    /\ output'[v] = output[v] /\ request'[v] = request[v]
                    /\ response'[v] = response[v] /\ app_name'[v] = app_name[v]
                    /\ events'[v] = events[v]]_vars

\* One invocation has returned after a dispatch while another, for a
\* different request, is between authenticate and dispatch.
C16_Witness ==
    \E w, v \in Workers :
        /\ pc[w] = "returned" /\ Calls(w, "dispatch_request") # {}
        /\ pc[v] = "authenticated"
        /\ request[w] # request[v]
        /\ app_name[w] # app_name[v]

\* ------------------------------------------- key mapping claims, second part
\* C17: get, get_all and exists never change the mapping, in memory or in
\* storage: every triple is mapped after the call as before; and a
\* successful get of a triple that is not mapped returns None.
C17_ReadsChangeNothing ==
    /\ [][klast'.op \in {"get", "get_all", "exists"} =>
            /\ \A t \in KeyTriples :
                   /\ Mapped(key_store', t) = Mapped(key_store, t)
                   /\ Mapped(disk', t) = Mapped(disk, t)
            /\ key_store' = key_store
            /\ disk' = disk]_vars
    /\ [](Returned(klast, "get") =>
              /\ klast.ret_info = Mapped(key_store, unwrap(klast.triple))
              /\ Mapped(key_store, unwrap(klast.triple)) = {} =>
                     klast.ret_info = None)

\* A get of a triple that is not mapped returned None, without an error,
\* while the mapping holds other keys.
C17_Witness ==
    /\ Returned(klast, "get")
    /\ klast.ret_info = None
    /\ Cardinality(key_store) = 2

\* Triples that differ from t in the application name only.
OtherApps(t) ==
    {u \in KeyTriples : /\ u.app_name # t.app_name
                        /\ u.provider_id = t.provider_id
                        /\ u.key_name = t.key_name}

\* C18: insert(T, R) and remove(T) leave the mapping of every other triple
\* unchanged, where a triple is another one as soon as one of application
\* name, provider id and key name differs; get, remove and exists on a triple
\* answer from the mapping of that very triple, so that a record another
\* application inserted under the same provider and key name is never
\* returned.
C18_IsolatedByTriple ==
    /\ [][klast'.op \in {"insert", "remove"} =>
            \A t \in KeyTriples \ klast'.triple :
                Mapped(key_store', t) = Mapped(key_store, t)]_vars
    /\ [][klast'.ok =>
            LET T == unwrap(klast'.triple) IN
              /\ klast'.op \in {"get", "remove"} =>
                     /\ klast'.ret_info = Mapped(key_store, T)
                     /\ \A u \in OtherApps(T) :
                            (Mapped(key_store, T) = {} /\ Mapped(key_store, u) # {})
                                => klast'.ret_info = None
              /\ klast'.op = "exists" =>
                     klast'.ret_flag = (Mapped(key_store, T) # {})]_vars

\* A get by one application returned None although another application has
\* a key of the same provider and key name in the mapping.
C18_Witness ==
    /\ Returned(klast, "get")
    /\ klast.ret_info = None
    /\ \E u \in OtherApps(unwrap(klast.triple)) : Mapped(key_store, u) # {}

\* ------------------------------------------------ front end claims, third part
\* C19: a failed build reports one error, that of the first missing value in
\* the order dispatcher, authenticators, body_len_limit: a later missing
\* value is reported only when all earlier values were supplied.
C19_FirstMissingReported ==
    BuildFailed =>
        unwrap(build_result).err =
            (IF ~DispatcherSupplied THEN "dispatcher is missing"
             ELSE IF ~AuthenticatorSupplied THEN "authenticators is missing"
             ELSE "body_len_limit is missing")

\* build failed on a builder that lacked both its authenticators and its
\* body length limit.
C19_Witness ==
    /\ BuildFailed
    /\ DispatcherSupplied /\ ~AuthenticatorSupplied /\ ~LimitSupplied
    /\ unwrap(build_result).err = "authenticators is missing"

\* C20: the registry of every handler build returns is not empty: the
\* builder's registry exists only after a with_authenticator call and then
\* holds an entry, and a builder that was given a dispatcher and a body
\* length limit but no authenticator fails with "authenticators is missing".
C20_RegistryNeverEmpty ==
    /\ Serving => DOMAIN handler.authenticators # {}
    /\ builder.authenticators # None =>
           /\ AuthenticatorSupplied
           /\ DOMAIN unwrap(builder.authenticators) # {}
    /\ (/\ build_result # None
        /\ DispatcherSupplied /\ LimitSupplied /\ ~AuthenticatorSupplied) =>
           unwrap(build_result) = [ok |-> FALSE, err |-> "authenticators is missing"]

\* build was called with a dispatcher and a body length limit but without
\* any authenticator, and failed.
C20_Witness ==
    /\ BuildFailed
    /\ DispatcherSupplied /\ LimitSupplied /\ ~AuthenticatorSupplied

====
